---- MODULE Spec2Model ----
(***************************************************************************)
(* Model of the ralph-tui execution engine (class ExecutionEngine): the    *)
(* iteration loop, the retry / skip / abort error policy, pause / resume / *)
(* stop control and the event stream, together with the tracker and agent  *)
(* collaborators it drives.                                                *)
(*                                                                         *)
(* JavaScript runs one call path at a time: an action of this model is the *)
(* code that runs from one suspension point (an await that waits for a     *)
(* collaborator or a timer) to the next.  Calls of the public API (start,  *)
(* stop, pause, resume) are made by the operator between such steps.       *)
(***************************************************************************)
EXTENDS Integers, Sequences, FiniteSets, TLC

VARIABLES
  config,            \* RalphConfig: errorHandling, maxIterations, iterationDelay
  agentBound,        \* this.agent !== null
  trackerBound,      \* this.tracker !== null
  status,            \* state.status
  currentIteration,  \* state.currentIteration
  currentTask,       \* state.currentTask ("none" for null)
  tasksCompleted,    \* state.tasksCompleted
  iterations,        \* state.iterations
  startedAt,         \* state.startedAt (0 for null, else the time of the call)
  currentExecution,  \* this.currentExecution (0 for null, else the handle's id)
  shouldStop,        \* this.shouldStop
  retryCountMap,     \* this.retryCountMap
  skippedTasks,      \* this.skippedTasks
  events,            \* every event handed to emit, in order
  tracker,           \* the tracker plugin's tasks, dependencies and statuses
  executions,        \* the handles agent.execute has returned, by id
  pc,                \* per start() invocation: the await it is suspended at
  loc,               \* per start() invocation: the locals live across the await
  stopPending,       \* stop() calls suspended at await updateSessionStatus
  pauseAt,           \* the attempt in flight when pause() was last accepted (0: none)
  pauseRequests,     \* the accepted pause() calls, in order, each with its fate
  savedLogs,         \* the attempts whose saveIterationLog call has returned
  listeners,         \* this.listeners
  delivered,         \* every call of a listener made by emit, in order
  childProcesses,    \* iFlow adapter: the child processes execute() has spawned
  currentProcess,    \* iFlow adapter: this.currentProcess (0 for undefined)
  runVersion,        \* Copilot adapter: the locals of one runVersion(command) call
  prompt             \* buildPrompt(task, config): its inputs and what each call returned

vars == <<config, agentBound, trackerBound, status, currentIteration, currentTask,
          tasksCompleted, iterations, startedAt, currentExecution, shouldStop,
          retryCountMap, skippedTasks, events, tracker, executions, pc, loc,
          stopPending, pauseAt, pauseRequests, savedLogs, listeners, delivered,
          childProcesses, currentProcess, runVersion, prompt>>

-----------------------------------------------------------------------------
(* Bounds of the model *)

\* start() invocations that can be suspended at once
MaxLoops == 2
\* accepted start(), stop() and pause() calls explored per engine
MaxCalls == 2
\* attempts explored in a run that nobody stops
MaxAttempts == 3
\* listeners registered at once
MaxListeners == 2
\* chunks of output an agent execution writes
MaxChunks == 1

\* the longest backlog a tracker reports to the task selection
MaxTasks == 3

\* execute() calls made on one iFlow adapter instance
MaxProcesses == 3

\* characters the copilot process writes to its stdout
MaxChars == 5

Loops == 1..MaxLoops

-----------------------------------------------------------------------------
(* Completion marker: PROMISE_COMPLETE_PATTERN = /<promise>\s*COMPLETE\s*<\/promise>/i *)
(* Output text is a sequence of tokens; the two spellings of a tag or word  *)
(* stand for the letter cases the /i flag makes equivalent.                *)

IsOpenTag(t) == t \in {"<promise>", "<PROMISE>"}
IsCloseTag(t) == t \in {"</promise>", "</PROMISE>"}
IsWord(t) == t \in {"COMPLETE", "complete"}
IsSpace(t) == t \in {" ", "\n"}

RECURSIVE SkipSpaces(_, _)
SkipSpaces(s, i) ==
  IF i <= Len(s) /\ IsSpace(s[i]) THEN SkipSpaces(s, i + 1) ELSE i

MatchAt(s, i) ==
  /\ IsOpenTag(s[i])
  /\ LET j == SkipSpaces(s, i + 1)
     IN /\ j <= Len(s)
        /\ IsWord(s[j])
        /\ LET k == SkipSpaces(s, j + 1)
           IN k <= Len(s) /\ IsCloseTag(s[k])

RECURSIVE ScanFrom(_, _)
ScanFrom(s, i) ==
  IF i > Len(s) THEN FALSE
  ELSE IF MatchAt(s, i) THEN TRUE
  ELSE ScanFrom(s, i + 1)

PromiseCompleteTest(stdout) == ScanFrom(stdout, 1)

\* outputs the model's agent can produce
Stdouts ==
  { <<"<promise>", "x", "COMPLETE", "</promise>">>,
    <<"x", "<promise>", " ", "complete", "\n", "</PROMISE>">> }

-----------------------------------------------------------------------------
(* Tracker plugin *)

TaskIds(tr) == {tr.tasks[i] : i \in 1..Len(tr.tasks)}

GetTasks(tr, statuses) == SelectSeq(tr.tasks, LAMBDA t : tr.status[t] \in statuses)

IsTaskReady(tr, t) == \A d \in tr.deps[t] : tr.status[d] = "closed"

IsComplete(tr) == \A t \in TaskIds(tr) : tr.status[t] = "closed"

UpdateTaskStatus(tr, t, s) == [tr EXCEPT !.status[t] = s]

CompleteTask(tr, t, iter) ==
  [tr EXCEPT !.status[t] = "closed",
             !.completeCalls = @ \cup {[task |-> t, iteration |-> iter]}]

-----------------------------------------------------------------------------
(* The engine's fields as one record, so that the statements of a method   *)
(* compose in the order the code runs them.                                *)

World ==
  [config |-> config, agentBound |-> agentBound, trackerBound |-> trackerBound,
   status |-> status, currentIteration |-> currentIteration,
   currentTask |-> currentTask, tasksCompleted |-> tasksCompleted,
   iterations |-> iterations, startedAt |-> startedAt,
   currentExecution |-> currentExecution, shouldStop |-> shouldStop,
   retryCountMap |-> retryCountMap, skippedTasks |-> skippedTasks,
   events |-> events, tracker |-> tracker, executions |-> executions,
   pc |-> pc, loc |-> loc, stopPending |-> stopPending, pauseAt |-> pauseAt,
   pauseRequests |-> pauseRequests, savedLogs |-> savedLogs,
   listeners |-> listeners, delivered |-> delivered,
   childProcesses |-> childProcesses, currentProcess |-> currentProcess,
   runVersion |-> runVersion, prompt |-> prompt]

Becomes(w) ==
  /\ config' = w.config
  /\ agentBound' = w.agentBound
  /\ trackerBound' = w.trackerBound
  /\ status' = w.status
  /\ currentIteration' = w.currentIteration
  /\ currentTask' = w.currentTask
  /\ tasksCompleted' = w.tasksCompleted
  /\ iterations' = w.iterations
  /\ startedAt' = w.startedAt
  /\ currentExecution' = w.currentExecution
  /\ shouldStop' = w.shouldStop
  /\ retryCountMap' = w.retryCountMap
  /\ skippedTasks' = w.skippedTasks
  /\ events' = w.events
  /\ tracker' = w.tracker
  /\ executions' = w.executions
  /\ pc' = w.pc
  /\ loc' = w.loc
  /\ stopPending' = w.stopPending
  /\ pauseAt' = w.pauseAt
  /\ pauseRequests' = w.pauseRequests
  /\ savedLogs' = w.savedLogs
  /\ listeners' = w.listeners
  /\ delivered' = w.delivered
  /\ childProcesses' = w.childProcesses
  /\ currentProcess' = w.currentProcess
  /\ runVersion' = w.runVersion
  /\ prompt' = w.prompt

NoLoc == [task |-> "none", iteration |-> 0, execution |-> 0, result |-> <<>>]

\* buildPrompt has not been called
NotBuilt == [stage |-> "none"]

\* runVersion(): nothing spawned yet. stdout, stderr, settled and timer are
\* the locals of the call; result holds what resolve() was last called with,
\* resolves counts the calls of resolve(), occurred lists the 'error',
\* 'close' and timeout callbacks in the order they ran
NotCalled ==
  [called |-> FALSE, stdout |-> <<>>, stderr |-> FALSE, settled |-> FALSE,
   timer |-> "none", killed |-> FALSE, result |-> <<>>, resolves |-> 0,
   occurred |-> <<>>, code |-> "none"]

\* an EngineEvent: info is the reason of engine:stopped and the action of
\* iteration:failed, attempt the retryAttempt of iteration:retrying
Event(type, iteration, task, info) ==
  [type |-> type, iteration |-> iteration, task |-> task, info |-> info, attempt |-> 0]

\* the listener functions an observer can register: "b" throws when called
ListenerFns == {[fn |-> "a", throws |-> FALSE], [fn |-> "b", throws |-> TRUE]}

\* the listener functions that call an unsubscribe function from inside
\* their callback: "c" its own, "d" the one returned for "a"
UnsubscribingFns ==
  {[fn |-> "c", throws |-> FALSE, unsubscribes |-> "c"],
   [fn |-> "d", throws |-> FALSE, unsubscribes |-> "a"]}

\* the listener whose unsubscribe function this listener calls, if any
Unsubscribes(listener) ==
  IF "unsubscribes" \in DOMAIN listener THEN listener.unsubscribes ELSE "none"

\* the function on() returns: indexOf(listener), then splice(index, 1)
RemoveFirst(ls, fn) ==
  LET found == {i \in 1..Len(ls) : ls[i].fn = fn}
  IN IF found = {} THEN ls
     ELSE LET index == CHOOSE i \in found : \A j \in found : i <= j
          IN SubSeq(ls, 1, index - 1) \o SubSeq(ls, index + 1, Len(ls))

\* the listener runs: what it leaves of this.listeners
AfterCallback(ls, listener) ==
  IF Unsubscribes(listener) = "none" THEN ls
  ELSE RemoveFirst(ls, Unsubscribes(listener))

RECURSIVE DeliverFrom_Propagates(_, _, _, _)
DeliverFrom_Propagates(ls, i, seq, calls) ==
  IF i > Len(ls) THEN [listeners |-> ls, delivered |-> calls]
  ELSE IF ls[i].throws
  THEN [listeners |-> ls, delivered |-> Append(calls, [fn |-> ls[i].fn, seq |-> seq])]
  ELSE DeliverFrom_Propagates(AfterCallback(ls, ls[i]), i + 1, seq,
                              Append(calls, [fn |-> ls[i].fn, seq |-> seq]))

\* emit(): for (const listener of this.listeners) { try { listener(event) } catch {} }
\* from the i-th position of the array on; seq numbers the event. The array
\* iterator reads this.listeners[i] and its length at every step
RECURSIVE DeliverFrom(_, _, _, _)
DeliverFrom(ls, i, seq, calls) ==
  IF i > Len(ls) THEN [listeners |-> ls, delivered |-> calls]
  ELSE DeliverFrom(AfterCallback(ls, ls[i]), i + 1, seq,
                   Append(calls, [fn |-> ls[i].fn, seq |-> seq]))

Emit(w, e) ==
  LET d == DeliverFrom(w.listeners, 1, Len(w.events) + 1, w.delivered)
  IN [w EXCEPT !.events = Append(@, e),
               !.delivered = d.delivered,
               !.listeners = d.listeners]

StoppedEvent(w, reason) ==
  Emit(w, Event("engine:stopped", w.currentIteration, "none", reason))

CountEvents(evs, type) == Cardinality({i \in 1..Len(evs) : evs[i].type = type})

\* stop() calls made: those still suspended and those that have emitted
StopCalls(w) ==
  w.stopPending
  + Cardinality({i \in 1..Len(w.events) :
       w.events[i].type = "engine:stopped" /\ w.events[i].info = "interrupted"})

\* calls the model counts against MaxCalls: the start(), stop() and pause()
\* calls the engine has accepted
CallsMade(w) ==
  CountEvents(w.events, "engine:started") + Len(w.pauseRequests) + StopCalls(w)

-----------------------------------------------------------------------------
(* start() and runLoop() *)

CanStart_IgnoresStatus(w) == w.agentBound /\ w.trackerBound

\* start(): the two checks that throw
CanStart(w) == w.status = "idle" /\ w.agentBound /\ w.trackerBound

\* start(): the finally clause, run when runLoop returns
LoopExit(w, l) ==
  [w EXCEPT !.status = "idle", !.pc[l] = "none", !.loc[l] = NoLoc]

MaxIterationsReached_OneMore(w) ==
  w.config.maxIterations > 0 /\ w.currentIteration > w.config.maxIterations

\* runLoop(): maxIterations > 0 && currentIteration >= maxIterations
MaxIterationsReached(w) ==
  w.config.maxIterations > 0 /\ w.currentIteration >= w.config.maxIterations

\* runLoop(): from the max-iterations check to await tracker.isComplete()
CheckMaxIterations(w, l) ==
  IF MaxIterationsReached(w)
  THEN LoopExit(StoppedEvent(w, "max_iterations"), l)
  ELSE [w EXCEPT !.pc[l] = "isComplete"]

\* the latest accepted pause() call, if still pending, meets its fate
SetFate(requests, fate) ==
  IF requests # <<>> /\ requests[Len(requests)] = "pending"
  THEN [requests EXCEPT ![Len(requests)] = fate]
  ELSE requests

\* runLoop(): the while condition and the pause checkpoint
RunLoop(w, l) ==
  IF w.shouldStop THEN LoopExit(w, l)
  ELSE IF w.status = "pausing"
  THEN [Emit([w EXCEPT !.status = "paused"],
             Event("engine:paused", w.currentIteration, "none", ""))
          EXCEPT !.pc[l] = "pausePoll", !.pauseRequests = SetFate(@, "served")]
  ELSE CheckMaxIterations(w, l)

PausePollLeaves_Always(w) == TRUE

\* runLoop(): a poll of the wait-until-resumed loop that leaves it
PausePollLeaves(w) == ~(w.status = "paused" /\ ~w.shouldStop)

AfterPausePoll(w, l) ==
  IF w.shouldStop THEN LoopExit(w, l)
  ELSE CheckMaxIterations(
         Emit(w, Event("engine:resumed", w.currentIteration, "none", "")), l)

-----------------------------------------------------------------------------
(* getNextAvailableTask() *)

RECURSIVE FirstAvailable_IgnoresSkipped(_, _, _)
FirstAvailable_IgnoresSkipped(tasks, skipped, tr) ==
  IF tasks = <<>> THEN "none"
  ELSE IF IsTaskReady(tr, Head(tasks)) THEN Head(tasks)
  ELSE FirstAvailable_IgnoresSkipped(Tail(tasks), skipped, tr)

RECURSIVE FirstAvailable_StopsAtUnready(_, _, _)
FirstAvailable_StopsAtUnready(tasks, skipped, tr) ==
  IF tasks = <<>> THEN "none"
  ELSE IF Head(tasks) \in skipped
  THEN FirstAvailable_StopsAtUnready(Tail(tasks), skipped, tr)
  ELSE IF IsTaskReady(tr, Head(tasks)) THEN Head(tasks)
  ELSE "none"

\* getNextAvailableTask(): the for loop over the tasks the tracker returned
RECURSIVE FirstAvailable(_, _, _)
FirstAvailable(tasks, skipped, tr) ==
  IF tasks = <<>> THEN "none"
  ELSE IF Head(tasks) \in skipped THEN FirstAvailable(Tail(tasks), skipped, tr)
  ELSE IF IsTaskReady(tr, Head(tasks)) THEN Head(tasks)
  ELSE FirstAvailable(Tail(tasks), skipped, tr)

GetNextAvailableTask(w) ==
  FirstAvailable(GetTasks(w.tracker, {"open", "in_progress"}), w.skippedTasks, w.tracker)

-----------------------------------------------------------------------------
(* runIteration() *)

NextIteration_Resets(n) == 1

\* runIteration(): this.state.currentIteration++
NextIteration(n) == n + 1

\* runIteration(): up to await tracker.updateTaskStatus(task.id, 'in_progress')
RunIteration(w, l, task) ==
  LET n == NextIteration(w.currentIteration)
      w1 == [w EXCEPT !.currentIteration = n, !.currentTask = task]
      w2 == Emit(w1, Event("iteration:started", n, task, ""))
      w3 == Emit(w2, Event("task:selected", n, task, ""))
  IN [w3 EXCEPT !.pc[l] = "updateTaskStatus",
                !.loc[l] = [task |-> task, iteration |-> n, execution |-> 0,
                            result |-> <<>>]]

NoAgentResult == [status |-> "none", interrupted |-> FALSE, stdout |-> <<>>]

AgentResults ==
  [status : {"completed", "failed"}, interrupted : BOOLEAN, stdout : Stdouts]

TaskCompleted_Both(promiseComplete, agentStatus) ==
  promiseComplete /\ agentStatus = "completed"

\* runIteration(): promiseComplete || agentResult.status === 'completed'
TaskCompleted(promiseComplete, agentStatus) ==
  promiseComplete \/ agentStatus = "completed"

IterationStatus(agentResult) ==
  IF agentResult.interrupted THEN "interrupted"
  ELSE IF agentResult.status = "failed" THEN "failed"
  ELSE "completed"

\* runIteration(): the result built after the agent's promise resolved
BuildResult(iteration, task, agentResult) ==
  LET promiseComplete == PromiseCompleteTest(agentResult.stdout)
  IN [iteration |-> iteration,
      status |-> IterationStatus(agentResult),
      task |-> task,
      agentResult |-> agentResult,
      taskCompleted |-> TaskCompleted(promiseComplete, agentResult.status),
      promiseComplete |-> promiseComplete,
      error |-> FALSE]

\* runIteration(): the result built by the catch clause
CaughtResult(iteration, task) ==
  [iteration |-> iteration, status |-> "failed", task |-> task,
   agentResult |-> NoAgentResult, taskCompleted |-> FALSE,
   promiseComplete |-> FALSE, error |-> TRUE]

\* runIteration(): the finally clause
FinallyClearTask(w) == [w EXCEPT !.currentTask = "none"]

-----------------------------------------------------------------------------
(* runIterationWithErrorHandling() and the rest of the loop body *)

RetryCount(m, t) == IF t \in DOMAIN m THEN m[t] ELSE 0

MapSet(m, t, v) == [x \in DOMAIN m \cup {t} |-> IF x = t THEN v ELSE m[x]]

MapDelete(m, t) == [x \in DOMAIN m \ {t} |-> m[x]]

ShouldAbort_Never(result, strategy) == FALSE

\* runLoop(): result.status === 'failed' && strategy === 'abort'
ShouldAbort(result, strategy) == result.status = "failed" /\ strategy = "abort"

\* runLoop(): from the abort check to await updateSessionIteration(...)
AfterIteration(w, l, result) ==
  IF ShouldAbort(result, w.config.strategy)
  THEN LoopExit(StoppedEvent(w, "error"), l)
  ELSE [w EXCEPT !.pc[l] = "updateSessionIteration", !.loc[l] = NoLoc]

CanRetry_OffByOne(currentRetries, maxRetries) == currentRetries <= maxRetries

\* runIterationWithErrorHandling(): currentRetries < errorConfig.maxRetries
CanRetry(currentRetries, maxRetries) == currentRetries < maxRetries

FailedEvent(w, task, action) ==
  Emit(w, Event("iteration:failed", w.currentIteration, task, action))

EmitSkipEvent(w, task) ==
  Emit(w, Event("iteration:skipped", w.currentIteration, task, ""))

AddSkipped_Forgets(skipped, task) == skipped

\* this.skippedTasks.add(task.id)
AddSkipped(skipped, task) == skipped \cup {task}

\* runIterationWithErrorHandling(): the 'retry' case
HandleRetry(w, l, task, result) ==
  LET currentRetries == RetryCount(w.retryCountMap, task)
  IN IF CanRetry(currentRetries, w.config.maxRetries)
     THEN LET w1 == FailedEvent(w, task, "retry")
              w2 == Emit(w1, [Event("iteration:retrying", w.currentIteration, task, "")
                                EXCEPT !.attempt = currentRetries + 1])
              w3 == [w2 EXCEPT !.retryCountMap = MapSet(@, task, currentRetries + 1)]
          IN IF w3.config.retryDelayMs > 0 /\ ~w3.shouldStop
             THEN [w3 EXCEPT !.pc[l] = "retryDelay",
                             !.loc[l] = [task |-> task, iteration |-> result.iteration,
                                         execution |-> 0, result |-> <<result>>]]
             ELSE IF ~w3.shouldStop
             THEN RunIteration(w3, l, task)
             ELSE AfterIteration(w3, l, result)
     ELSE LET w1 == EmitSkipEvent(FailedEvent(w, task, "skip"), task)
              w2 == [w1 EXCEPT !.skippedTasks = AddSkipped(@, task),
                               !.retryCountMap = MapDelete(@, task)]
          IN AfterIteration(w2, l, result)

\* runIterationWithErrorHandling(): the 'skip' case
HandleSkip(w, l, task, result) ==
  LET w1 == EmitSkipEvent(FailedEvent(w, task, "skip"), task)
  IN AfterIteration([w1 EXCEPT !.skippedTasks = AddSkipped(@, task)], l, result)

\* runIterationWithErrorHandling(): the 'abort' case
HandleAbort(w, l, task, result) ==
  AfterIteration(FailedEvent(w, task, "abort"), l, result)

PushResult(its, result) == Append(its, result)

\* runIterationWithErrorHandling(), entered when runIteration has returned
HandleResult(w, l, task, result) ==
  LET w1 == [w EXCEPT !.iterations = PushResult(@, result)]
  IN IF result.status # "failed"
     THEN IF result.taskCompleted
          THEN AfterIteration([w1 EXCEPT !.tasksCompleted = @ + 1,
                                         !.retryCountMap = MapDelete(@, task)],
                              l, result)
          ELSE AfterIteration(w1, l, result)
     ELSE IF w1.config.strategy = "retry" THEN HandleRetry(w1, l, task, result)
     ELSE IF w1.config.strategy = "skip" THEN HandleSkip(w1, l, task, result)
     ELSE HandleAbort(w1, l, task, result)

\* runIterationWithErrorHandling(): after await this.delay(retryDelayMs)
AfterRetryDelay_IgnoresStop(w, l) == RunIteration(w, l, w.loc[l].task)

AfterRetryDelay(w, l) ==
  IF ~w.shouldStop
  THEN RunIteration(w, l, w.loc[l].task)
  ELSE AfterIteration(w, l, w.loc[l].result[1])

-----------------------------------------------------------------------------
(* Initial state: the engine as its constructor leaves it *)

Strategies == {"retry", "skip", "abort"}

Config(strategy, maxRetries, retryDelayMs, maxIterations, iterationDelay) ==
  [strategy |-> strategy, maxRetries |-> maxRetries, retryDelayMs |-> retryDelayMs,
   maxIterations |-> maxIterations, iterationDelay |-> iterationDelay]

OneTask == [tasks |-> <<"A">>, deps |-> [t \in {"A"} |-> {}]]

Blocked ==
  [tasks |-> <<"A", "B">>, deps |-> [t \in {"A", "B"} |-> IF t = "B" THEN {"A"} ELSE {}]]

Independent == [tasks |-> <<"A", "B">>, deps |-> [t \in {"A", "B"} |-> {}]]

\* the configurations and backlogs explored
Scenarios ==
  { [config |-> Config("skip", 0, 0, 0, 0), setup |-> Blocked],
    [config |-> Config("skip", 0, 0, 0, 1), setup |-> Independent],
    [config |-> Config("abort", 0, 0, 0, 0), setup |-> Blocked],
    [config |-> Config("retry", 2, 1, 0, 0), setup |-> OneTask],
    [config |-> Config("retry", 1, 0, 1, 0), setup |-> Blocked],
    [config |-> Config("skip", 0, 0, 2, 0), setup |-> Independent] }

\* a single task under strategy 'retry'
RetryScenarios ==
  { [config |-> Config("retry", 0, 0, 0, 0), setup |-> OneTask],
    [config |-> Config("retry", 1, 1, 0, 1), setup |-> OneTask],
    [config |-> Config("retry", 2, 0, 0, 0), setup |-> OneTask],
    [config |-> Config("retry", 0, 0, 2, 0), setup |-> OneTask],
    [config |-> Config("retry", 1, 0, 2, 0), setup |-> OneTask] }

InitFrom(scenarios) ==
  /\ agentBound = FALSE
  /\ trackerBound = FALSE
  /\ status = "idle"
  /\ currentIteration = 0
  /\ currentTask = "none"
  /\ tasksCompleted = 0
  /\ iterations = <<>>
  /\ startedAt = 0
  /\ currentExecution = 0
  /\ shouldStop = FALSE
  /\ retryCountMap = <<>>
  /\ skippedTasks = {}
  /\ events = <<>>
  /\ \E sc \in scenarios :
       /\ config = sc.config
       /\ tracker = [tasks |-> sc.setup.tasks, deps |-> sc.setup.deps,
                     status |-> [t \in DOMAIN sc.setup.deps |-> "open"],
                     completeCalls |-> {}]
  /\ executions = <<>>
  /\ pc = [l \in Loops |-> "none"]
  /\ loc = [l \in Loops |-> NoLoc]
  /\ stopPending = 0
  /\ pauseAt = 0
  /\ pauseRequests = <<>>
  /\ savedLogs = {}
  /\ listeners = <<>>
  /\ delivered = <<>>
  /\ childProcesses = <<>>
  /\ currentProcess = 0
  /\ runVersion = NotCalled
  /\ prompt = NotBuilt

Init == InitFrom(Scenarios)

InitRetry == InitFrom(RetryScenarios)

\* a single task under each strategy
OutputScenarios ==
  { [config |-> Config("skip", 0, 0, 0, 1), setup |-> OneTask],
    [config |-> Config("retry", 1, 1, 0, 0), setup |-> OneTask],
    [config |-> Config("abort", 0, 0, 0, 0), setup |-> OneTask] }

InitOutput == InitFrom(OutputScenarios)

\* strategies 'skip' and 'retry' without a cap on the iterations
UnattendedScenarios ==
  { [config |-> Config("skip", 0, 0, 0, 1), setup |-> Blocked],
    [config |-> Config("retry", 1, 1, 0, 0), setup |-> OneTask] }

InitUnattended == InitFrom(UnattendedScenarios)

\* a single task, retried once and then skipped
ListenerScenarios == {[config |-> Config("retry", 1, 1, 0, 1), setup |-> OneTask]}

InitListeners == InitFrom(ListenerScenarios)

\* the ids a tracker can give its tasks
TaskNames == <<"A", "B", "C", "D">>

\* the backlogs of at most MaxTasks tasks, in every order the tracker can
\* return them, every task open, in progress or closed, and isTaskReady any
\* predicate: a task that is not ready is written as waiting for itself
Backlogs ==
  LET names == {TaskNames[i] : i \in 1..MaxTasks}
      lists == UNION {{q \in [1..n -> names] : \A i, j \in 1..n : q[i] = q[j] => i = j}
                        : n \in 1..MaxTasks}
      ids(q) == {q[i] : i \in 1..Len(q)}
  IN UNION {[tasks : {q},
             deps : {[t \in ids(q) |-> IF t \in waiting THEN {t} ELSE {}]
                       : waiting \in SUBSET ids(q)},
             status : [ids(q) -> {"open", "in_progress", "closed"}],
             completeCalls : {{}}] : q \in lists}

\* an engine that earlier runs left with any set of skipped tasks, on any
\* backlog
InitSelect ==
  /\ agentBound = FALSE
  /\ trackerBound = FALSE
  /\ status = "idle"
  /\ currentIteration = 0
  /\ currentTask = "none"
  /\ tasksCompleted = 0
  /\ iterations = <<>>
  /\ startedAt = 0
  /\ currentExecution = 0
  /\ shouldStop = FALSE
  /\ retryCountMap = <<>>
  /\ config = Config("skip", 0, 0, 0, 0)
  /\ tracker \in Backlogs
  /\ skippedTasks \in SUBSET TaskIds(tracker)
  /\ events = <<>>
  /\ executions = <<>>
  /\ pc = [l \in Loops |-> "none"]
  /\ loc = [l \in Loops |-> NoLoc]
  /\ stopPending = 0
  /\ pauseAt = 0
  /\ pauseRequests = <<>>
  /\ savedLogs = {}
  /\ listeners = <<>>
  /\ delivered = <<>>
  /\ childProcesses = <<>>
  /\ currentProcess = 0
  /\ runVersion = NotCalled
  /\ prompt = NotBuilt

-----------------------------------------------------------------------------
(* Public API calls *)

\* initialize(): agent detected and tracker bound
Initialize ==
  /\ ~trackerBound
  /\ Becomes([World EXCEPT !.agentBound = TRUE, !.trackerBound = TRUE])

\* initialize(): the agent is not available; the call throws with the agent
\* instance assigned and no tracker
InitializeThrows ==
  /\ ~agentBound /\ ~trackerBound
  /\ Becomes([World EXCEPT !.agentBound = TRUE])

StartCall_Unguarded(w, l) ==
  LET n == CountEvents(w.events, "engine:started") + 1
      w1 == [w EXCEPT !.status = "running", !.startedAt = n, !.shouldStop = FALSE]
      w2 == Emit(w1, Event("engine:started", w1.currentIteration, "none", ""))
  IN RunLoop(w2, l)

\* start(): the error it throws, "none" when it goes on
StartError(w) ==
  IF w.status # "idle" THEN "Cannot start engine"
  ELSE IF ~w.agentBound \/ ~w.trackerBound THEN "Engine not initialized"
  ELSE "none"

\* start() as invocation l: it throws unless CanStart, else runs up to the
\* first await of runLoop
StartCall(w, l) ==
  IF ~CanStart(w) THEN w
  ELSE LET n == CountEvents(w.events, "engine:started") + 1
           w1 == [w EXCEPT !.status = "running", !.startedAt = n, !.shouldStop = FALSE]
           w2 == Emit(w1, Event("engine:started", w1.currentIteration, "none", ""))
       IN RunLoop(w2, l)

Start(l) ==
  /\ pc[l] = "none"
  /\ \A k \in Loops : k < l => pc[k] # "none"
  /\ CallsMade(World) < MaxCalls
  /\ Becomes(StartCall(World, l))

Interrupt(execs, id) == [execs EXCEPT ![id].interrupts = @ + 1]

StopRequest_InterruptsTwice(w) ==
  LET w1 == [w EXCEPT !.shouldStop = TRUE, !.status = "stopping"]
  IN IF w1.currentExecution # 0
     THEN [w1 EXCEPT !.executions = Interrupt(Interrupt(@, w1.currentExecution),
                                              w1.currentExecution)]
     ELSE w1

\* stop(): up to await updateSessionStatus(cwd, 'interrupted')
StopRequest(w) ==
  LET w1 == [w EXCEPT !.shouldStop = TRUE, !.status = "stopping"]
  IN IF w1.currentExecution # 0
     THEN [w1 EXCEPT !.executions = Interrupt(@, w1.currentExecution)]
     ELSE w1

Stop ==
  /\ CallsMade(World) < MaxCalls
  /\ Becomes([StopRequest(World) EXCEPT !.stopPending = @ + 1])

\* stop(): after await updateSessionStatus
StopReturns ==
  /\ stopPending > 0
  /\ Becomes([StoppedEvent(World, "interrupted") EXCEPT !.stopPending = @ - 1])

PauseCall_Unguarded(w) ==
  [w EXCEPT !.status = "pausing",
            !.pauseAt = IF w.currentTask = "none" THEN 0 ELSE w.currentIteration,
            !.pauseRequests = Append(@, "pending")]

\* pause()
PauseCall(w) ==
  IF w.status # "running" THEN w
  ELSE [w EXCEPT !.status = "pausing",
                 !.pauseAt = IF w.currentTask = "none" THEN 0 ELSE w.currentIteration,
                 !.pauseRequests = Append(@, "pending")]

Pause ==
  /\ CallsMade(World) < MaxCalls
  /\ Becomes(PauseCall(World))

ResumeStatus_OnlyFromPaused(s) == IF s = "paused" THEN "running" ELSE s

\* resume(): the status it leaves
ResumeStatus(s) ==
  IF s = "pausing" THEN "running"
  ELSE IF s # "paused" THEN s
  ELSE "running"

\* resume(); called while pausing it cancels the pending pause() call
ResumeCall(w) ==
  [w EXCEPT !.status = ResumeStatus(@),
            !.pauseRequests = IF w.status = "pausing" THEN SetFate(@, "cancelled") ELSE @]

Resume == Becomes(ResumeCall(World))

\* on(listener), called by an observer before a run or between two runs
On(listener) ==
  /\ Len(listeners) < MaxListeners
  /\ \A l \in Loops : pc[l] \in {"none", "rejected"}
  /\ Becomes([World EXCEPT !.listeners = Append(@, listener)])

\* an observer calls the unsubscribe function on() returned for fn
Unsubscribe(fn) ==
  /\ \A l \in Loops : pc[l] \in {"none", "rejected"}
  /\ \E i \in 1..Len(listeners) : listeners[i].fn = fn
  /\ Becomes([World EXCEPT !.listeners = RemoveFirst(@, fn)])

-----------------------------------------------------------------------------
(* Steps of a suspended start() invocation l: the awaited promise settles   *)
(* and the code runs on to the next await                                   *)

\* the wait-until-resumed poll: await this.delay(100) returns
PausePoll(l) ==
  /\ pc[l] = "pausePoll"
  /\ PausePollLeaves(World)
  /\ Becomes(AfterPausePoll(World, l))

\* await this.tracker.isComplete() returns
IsCompleteReturns(l) ==
  /\ pc[l] = "isComplete"
  /\ IF IsComplete(tracker)
     THEN LET w1 == Emit(World, Event("all:complete", currentIteration, "none", ""))
          IN Becomes(LoopExit(StoppedEvent(w1, "completed"), l))
     ELSE Becomes([World EXCEPT !.pc[l] = "getNextAvailableTask"])

\* await this.getNextAvailableTask() returns; with a task, runIteration starts
GetNextAvailableTaskReturns(l) ==
  /\ pc[l] = "getNextAvailableTask"
  /\ LET task == GetNextAvailableTask(World)
     IN IF task = "none"
        THEN Becomes(LoopExit(StoppedEvent(World, "no_tasks"), l))
        ELSE Becomes(RunIteration(World, l, task))

InProgress(w, l) ==
  [w EXCEPT !.tracker = UpdateTaskStatus(@, w.loc[l].task, "in_progress")]

\* await tracker.updateTaskStatus returns and agent.execute returns a handle
ExecuteReturns(l) ==
  /\ pc[l] = "updateTaskStatus"
  /\ LET w1 == InProgress(World, l)
         id == Len(w1.executions) + 1
     IN Becomes([w1 EXCEPT
          !.executions = Append(@, [iteration |-> w1.loc[l].iteration,
                                    settled |-> FALSE, interrupts |-> 0,
                                    chunks |-> 0]),
          !.currentExecution = id,
          !.loc[l].execution = id,
          !.pc[l] = "awaitAgent"])

\* runIteration returns: its finally clause runs and the result is handed to
\* runIterationWithErrorHandling
Returns(w, l, task, result) ==
  Becomes(HandleResult(FinallyClearTask(w), l, task, result))

\* await tracker.updateTaskStatus returns and agent.execute throws
ExecuteThrows(l) ==
  /\ pc[l] = "updateTaskStatus"
  /\ LET w1 == InProgress(World, l)
     IN Returns(w1, l, loc[l].task, CaughtResult(loc[l].iteration, loc[l].task))

\* the agent writes a chunk of output: the onStdout / onStderr callback runs
AgentOutput(l) ==
  /\ pc[l] = "awaitAgent"
  /\ executions[loc[l].execution].chunks < MaxChunks
  /\ Becomes(Emit([World EXCEPT !.executions[loc[l].execution].chunks = @ + 1],
                  Event("agent:output", loc[l].iteration, "none", "")))

\* an exception leaves runIteration outside its try block: it passes through
\* runIterationWithErrorHandling and runLoop, start()'s finally clause runs and
\* the promise start() returned rejects
Propagate(w, l) ==
  [w EXCEPT !.status = "idle", !.pc[l] = "rejected", !.loc[l] = NoLoc]

\* await tracker.updateTaskStatus returns and buildPrompt throws: renderPrompt
\* builds the template variables outside its own try block
BuildPromptThrows(l) ==
  /\ pc[l] = "updateTaskStatus"
  /\ Becomes(Propagate(InProgress(World, l), l))

\* await tracker.updateTaskStatus rejects
UpdateTaskStatusRejects(l) ==
  /\ pc[l] = "updateTaskStatus"
  /\ Becomes(Propagate(World, l))

Settle(w, id) == [w EXCEPT !.executions[id].settled = TRUE]

CallSaveIterationLog_EmitsFirst(w, l) ==
  [Emit(w, Event("iteration:completed", w.loc[l].iteration, w.loc[l].task,
                 w.loc[l].result[1].status))
     EXCEPT !.pc[l] = "saveIterationLog"]

\* runIteration(): the result is built and saveIterationLog(...) is called
CallSaveIterationLog(w, l) == [w EXCEPT !.pc[l] = "saveIterationLog"]

\* await handle.promise resolves with agentResult
AgentResolves(l, agentResult) ==
  /\ pc[l] = "awaitAgent"
  /\ agentResult.interrupted => executions[loc[l].execution].interrupts > 0
  /\ LET w1 == [Settle(World, loc[l].execution) EXCEPT !.currentExecution = 0]
         result == BuildResult(loc[l].iteration, loc[l].task, agentResult)
         w2 == [w1 EXCEPT !.loc[l].result = <<result>>]
     IN IF result.taskCompleted
        THEN Becomes([w2 EXCEPT !.pc[l] = "completeTask"])
        ELSE Becomes(CallSaveIterationLog(w2, l))

\* await handle.promise resolves with interrupted set although the engine
\* did not call interrupt(): the agent was interrupted from outside
AgentInterrupted(l, agentResult) ==
  /\ pc[l] = "awaitAgent"
  /\ agentResult.interrupted
  /\ executions[loc[l].execution].interrupts = 0
  /\ LET w1 == [Settle(World, loc[l].execution) EXCEPT !.currentExecution = 0]
         result == BuildResult(loc[l].iteration, loc[l].task, agentResult)
         w2 == [w1 EXCEPT !.loc[l].result = <<result>>]
     IN IF result.taskCompleted
        THEN Becomes([w2 EXCEPT !.pc[l] = "completeTask"])
        ELSE Becomes(CallSaveIterationLog(w2, l))

\* await handle.promise rejects
AgentRejects(l) ==
  /\ pc[l] = "awaitAgent"
  /\ Returns(Settle(World, loc[l].execution), l, loc[l].task,
             CaughtResult(loc[l].iteration, loc[l].task))

\* await tracker.completeTask returns
CompleteTaskReturns(l) ==
  /\ pc[l] = "completeTask"
  /\ LET w1 == [World EXCEPT !.tracker = CompleteTask(@, loc[l].task, loc[l].iteration)]
         w2 == Emit(w1, Event("task:completed", loc[l].iteration, loc[l].task, ""))
     IN Becomes(CallSaveIterationLog(w2, l))

\* await saveIterationLog returns
SaveIterationLogReturns(l) ==
  /\ pc[l] = "saveIterationLog"
  /\ LET w1 == [World EXCEPT !.savedLogs = @ \cup {loc[l].iteration}]
         w2 == Emit(w1, Event("iteration:completed", loc[l].iteration, loc[l].task,
                              loc[l].result[1].status))
     IN Returns(w2, l, loc[l].task, loc[l].result[1])

\* await saveIterationLog rejects: the catch clause builds the result
SaveIterationLogRejects(l) ==
  /\ pc[l] = "saveIterationLog"
  /\ Returns(World, l, loc[l].task, CaughtResult(loc[l].iteration, loc[l].task))

\* await tracker.completeTask rejects: the catch clause builds the result
CompleteTaskRejects(l) ==
  /\ pc[l] = "completeTask"
  /\ Returns(World, l, loc[l].task, CaughtResult(loc[l].iteration, loc[l].task))

\* await this.delay(retryDelayMs) returns
RetryDelayReturns(l) ==
  /\ pc[l] = "retryDelay"
  /\ Becomes(AfterRetryDelay(World, l))

\* await updateSessionIteration returns
UpdateSessionIterationReturns(l) ==
  /\ pc[l] = "updateSessionIteration"
  /\ IF config.iterationDelay > 0 /\ ~shouldStop
     THEN Becomes([World EXCEPT !.pc[l] = "iterationDelay"])
     ELSE Becomes(RunLoop(World, l))

\* await this.delay(iterationDelay) returns
IterationDelayReturns(l) ==
  /\ pc[l] = "iterationDelay"
  /\ Becomes(RunLoop(World, l))

-----------------------------------------------------------------------------

Next ==
  \/ Initialize
  \/ InitializeThrows
  \/ \E l \in Loops : Start(l)
  \/ Stop
  \/ StopReturns
  \/ Pause
  \/ Resume
  \/ \E l \in Loops : PausePoll(l)
  \/ \E l \in Loops : IsCompleteReturns(l)
  \/ \E l \in Loops : GetNextAvailableTaskReturns(l)
  \/ \E l \in Loops : ExecuteReturns(l)
  \/ \E l \in Loops : ExecuteThrows(l)
  \/ \E l \in Loops, r \in AgentResults : AgentResolves(l, r)
  \/ \E l \in Loops : AgentRejects(l)
  \/ \E l \in Loops : CompleteTaskReturns(l)
  \/ \E l \in Loops : SaveIterationLogReturns(l)
  \/ \E l \in Loops : RetryDelayReturns(l)
  \/ \E l \in Loops : UpdateSessionIterationReturns(l)
  \/ \E l \in Loops : IterationDelayReturns(l)

Spec == Init /\ [][Next]_vars

\* the same engine, started on a one-task backlog under strategy 'retry'
SpecRetry == InitRetry /\ [][Next]_vars

\* collaborators that fail, inside and outside the try block of runIteration
NextFaults ==
  \/ Next
  \/ \E l \in Loops : BuildPromptThrows(l)
  \/ \E l \in Loops : UpdateTaskStatusRejects(l)
  \/ \E l \in Loops : CompleteTaskRejects(l)
  \/ \E l \in Loops : SaveIterationLogRejects(l)

SpecFaults == Init /\ [][NextFaults]_vars

\* the steps of a run that nobody pauses or stops, with an agent that can
\* report any result of its contract
LoopStep ==
  \/ \E l \in Loops : IsCompleteReturns(l)
  \/ \E l \in Loops : currentIteration < MaxAttempts /\ GetNextAvailableTaskReturns(l)
  \/ \E l \in Loops : ExecuteReturns(l)
  \/ \E l \in Loops : ExecuteThrows(l)
  \/ \E l \in Loops, r \in AgentResults : AgentResolves(l, r)
  \/ \E l \in Loops, r \in AgentResults : AgentInterrupted(l, r)
  \/ \E l \in Loops : AgentRejects(l)
  \/ \E l \in Loops : CompleteTaskReturns(l)
  \/ \E l \in Loops : SaveIterationLogReturns(l)
  \/ \E l \in Loops : RetryDelayReturns(l)
  \/ \E l \in Loops : UpdateSessionIterationReturns(l)
  \/ \E l \in Loops : IterationDelayReturns(l)

NextUnattended ==
  \/ Initialize
  \/ \E l \in Loops : Start(l)
  \/ LoopStep

\* every awaited promise settles and every timer fires
SpecUnattended ==
  InitUnattended /\ [][NextUnattended]_vars /\ WF_vars(LoopStep)

\* observers that register listeners before and between the runs
NextListeners ==
  \/ Next
  \/ \E listener \in ListenerFns : On(listener)

SpecListeners == InitListeners /\ [][NextListeners]_vars

\* an agent that streams its output while it runs
NextOutput ==
  \/ Next
  \/ \E l \in Loops : AgentOutput(l)

SpecOutput == InitOutput /\ [][NextOutput]_vars

\* a run up to its task selection
NextSelect ==
  \/ Initialize
  \/ \E l \in Loops : Start(l)
  \/ \E l \in Loops : IsCompleteReturns(l)
  \/ \E l \in Loops : GetNextAvailableTaskReturns(l)

SpecSelect == InitSelect /\ [][NextSelect]_vars

\* the listeners of observers that unsubscribe, inside a callback or outside
ObserverFns == {listener \in ListenerFns : ~listener.throws} \cup UnsubscribingFns

\* runs that nobody pauses or stops, watched by such observers
NextUnsubscribe ==
  \/ Initialize
  \/ \E l \in Loops : Start(l)
  \/ LoopStep
  \/ \E listener \in ObserverFns : On(listener)
  \/ \E listener \in ObserverFns : Unsubscribe(listener.fn)

SpecUnsubscribe == InitListeners /\ [][NextUnsubscribe]_vars

-----------------------------------------------------------------------------
(* The iFlow adapter as the engine's agent *)

\* the code of the child's 'close' event: "null" when a signal ended it
IFlowExitCodes == {"0", "1", "null"}

\* execute(): the result the 'close' handler resolves the promise with
IFlowCloseResult(code, stdout) ==
  [status |-> IF code = "0" THEN "completed" ELSE "failed",
   interrupted |-> FALSE, stdout |-> stdout]

\* execute(): the result the 'error' handler resolves the promise with
IFlowErrorResult == [status |-> "failed", interrupted |-> FALSE, stdout |-> <<>>]

\* the child process closes; a signal ends it only after handle.interrupt()
IFlowClose(l, code, stdout) ==
  /\ pc[l] = "awaitAgent"
  /\ code = "null" => executions[loc[l].execution].interrupts > 0
  /\ AgentResolves(l, IFlowCloseResult(code, stdout))

\* the child process could not be spawned
IFlowError(l) ==
  /\ pc[l] = "awaitAgent"
  /\ executions[loc[l].execution].interrupts = 0
  /\ AgentResolves(l, IFlowErrorResult)

NextIFlow ==
  \/ Initialize
  \/ \E l \in Loops : Start(l)
  \/ Stop
  \/ StopReturns
  \/ Pause
  \/ Resume
  \/ \E l \in Loops : PausePoll(l)
  \/ \E l \in Loops : IsCompleteReturns(l)
  \/ \E l \in Loops : GetNextAvailableTaskReturns(l)
  \/ \E l \in Loops : ExecuteReturns(l)
  \/ \E l \in Loops, code \in IFlowExitCodes, stdout \in Stdouts : IFlowClose(l, code, stdout)
  \/ \E l \in Loops : IFlowError(l)
  \/ \E l \in Loops : CompleteTaskReturns(l)
  \/ \E l \in Loops : SaveIterationLogReturns(l)
  \/ \E l \in Loops : RetryDelayReturns(l)
  \/ \E l \in Loops : UpdateSessionIterationReturns(l)
  \/ \E l \in Loops : IterationDelayReturns(l)

SpecIFlow == InitOutput /\ [][NextIFlow]_vars

-----------------------------------------------------------------------------
(* The iFlow adapter on its own: execute() and the handles it returns.  The *)
(* handle of the k-th execute() call is k, and so is its child process      *)

\* execute(): spawn, this.currentProcess = childProcess, the handle returned
IFlowExecute ==
  /\ Len(childProcesses) < MaxProcesses
  /\ Becomes([World EXCEPT
       !.childProcesses = Append(@, [exited |-> FALSE, killed |-> FALSE,
                                     signalledBy |-> {}]),
       !.currentProcess = Len(childProcesses) + 1])

\* the 'close' or 'error' handler of child process p runs
IFlowProcessEnds(p) ==
  /\ p \in DOMAIN childProcesses
  /\ ~childProcesses[p].exited
  /\ Becomes([World EXCEPT !.childProcesses[p].exited = TRUE,
                           !.currentProcess = 0])

\* handle.isRunning()
IFlowIsRunning(w, handle) ==
  w.currentProcess # 0 /\ ~w.childProcesses[w.currentProcess].killed

\* handle.interrupt(): kill('SIGINT') on this.currentProcess unless killed
IFlowInterruptCall(w, handle) ==
  IF w.currentProcess # 0 /\ ~w.childProcesses[w.currentProcess].killed
  THEN [w EXCEPT !.childProcesses[w.currentProcess].killed = TRUE,
                 !.childProcesses[w.currentProcess].signalledBy = @ \cup {handle}]
  ELSE w

IFlowInterrupt(handle) ==
  /\ handle \in DOMAIN childProcesses
  /\ IFlowInterruptCall(World, handle) # World
  /\ Becomes(IFlowInterruptCall(World, handle))

NextIFlowPlugin ==
  \/ IFlowExecute
  \/ \E p \in 1..MaxProcesses : IFlowProcessEnds(p)
  \/ \E handle \in 1..MaxProcesses : IFlowInterrupt(handle)

SpecIFlowPlugin == InitOutput /\ [][NextIFlowPlugin]_vars

-----------------------------------------------------------------------------
(* The GitHub Copilot adapter's runVersion(command) *)

\* the characters of the process output: a digit, a dot, anything else
Chars == {"1", ".", "v"}

\* the length of the run of digits that starts at position i of str
RECURSIVE Digits(_, _)
Digits(str, i) ==
  IF i > Len(str) \/ str[i] # "1" THEN 0 ELSE 1 + Digits(str, i + 1)

\* /(\d+\.\d+\.\d+)/ tried at position i: the length of the match, 0 if none
VersionAt(str, i) ==
  LET a == Digits(str, i)
      b == Digits(str, i + a + 1)
      c == Digits(str, i + a + b + 2)
  IN IF /\ a > 0 /\ i + a <= Len(str) /\ str[i + a] = "."
        /\ b > 0 /\ i + a + b + 1 <= Len(str) /\ str[i + a + b + 1] = "."
        /\ c > 0
     THEN a + b + c + 2 ELSE 0

\* stdout.match(/(\d+\.\d+\.\d+)/): <<>> for null, else <<the group>>
RECURSIVE VersionMatch(_, _)
VersionMatch(str, i) ==
  IF i > Len(str) THEN <<>>
  ELSE IF VersionAt(str, i) > 0 THEN <<SubSeq(str, i, i + VersionAt(str, i) - 1)>>
  ELSE VersionMatch(str, i + 1)

Success(version) == [success |-> TRUE, version |-> version, error |-> "none"]

Failure(error) == [success |-> FALSE, version |-> <<>>, error |-> error]

SafeResolve_Unguarded(v, result) ==
  [v EXCEPT !.settled = TRUE,
            !.timer = IF @ = "armed" THEN "cleared" ELSE @,
            !.result = <<result>>,
            !.resolves = @ + 1]

\* safeResolve: if (settled) return; settled = true; clearTimeout(timer);
\* resolve(result)
SafeResolve(v, result) ==
  IF v.settled THEN v
  ELSE [v EXCEPT !.settled = TRUE,
                 !.timer = IF @ = "armed" THEN "cleared" ELSE @,
                 !.result = <<result>>,
                 !.resolves = @ + 1]

\* the 'close' handler's result
CloseResult(code, stdout, stderr) ==
  IF code = "0"
  THEN IF VersionMatch(stdout, 1) = <<>> THEN Failure("Unable to parse")
       ELSE Success(VersionMatch(stdout, 1)[1])
  ELSE Failure(IF stderr THEN "stderr" ELSE "Exited with code")

\* runVersion(command): spawn, the handlers attached, the timer set
RunVersionCall ==
  /\ ~runVersion.called
  /\ Becomes([World EXCEPT !.runVersion = [NotCalled EXCEPT !.called = TRUE,
                                                           !.timer = "armed"]])

\* proc.stdout 'data'
StdoutData(char) ==
  /\ runVersion.called /\ runVersion.code = "none"
  /\ Len(runVersion.stdout) < MaxChars
  /\ Becomes([World EXCEPT !.runVersion.stdout = Append(@, char)])

\* proc.stderr 'data'
StderrData ==
  /\ runVersion.called /\ runVersion.code = "none"
  /\ ~runVersion.stderr
  /\ Becomes([World EXCEPT !.runVersion.stderr = TRUE])

\* proc 'error'
ProcError ==
  /\ runVersion.called /\ runVersion.code = "none"
  /\ \A i \in 1..Len(runVersion.occurred) : runVersion.occurred[i] # "error"
  /\ Becomes([World EXCEPT !.runVersion =
       SafeResolve([@ EXCEPT !.occurred = Append(@, "error")],
                   Failure("Failed to execute"))])

\* proc 'close': the code is null only when proc.kill() ended the process
ProcClose(code) ==
  /\ runVersion.called /\ runVersion.code = "none"
  /\ code = "null" => runVersion.killed
  /\ Becomes([World EXCEPT !.runVersion =
       SafeResolve([@ EXCEPT !.occurred = Append(@, "close"), !.code = code],
                   CloseResult(code, runVersion.stdout, runVersion.stderr))])

\* the 5000 ms timer fires: proc.kill(), then safeResolve
VersionTimeout ==
  /\ runVersion.timer = "armed"
  /\ Becomes([World EXCEPT !.runVersion =
       SafeResolve([@ EXCEPT !.occurred = Append(@, "timeout"), !.timer = "fired",
                             !.killed = (runVersion.code = "none")],
                   Failure("Timeout"))])

NextRunVersion ==
  \/ RunVersionCall
  \/ \E char \in Chars : StdoutData(char)
  \/ StderrData
  \/ ProcError
  \/ \E code \in {"0", "1", "null"} : ProcClose(code)
  \/ VersionTimeout

SpecRunVersion == InitListeners /\ [][NextRunVersion]_vars

-----------------------------------------------------------------------------
(* The prompt template: buildPrompt, renderPrompt and loadTemplate *)

BuiltinTemplateTypes == {"beads", "beads-bv", "json", "default"}

\* getBuiltinTemplate(trackerType)
GetBuiltinTemplate(trackerType) ==
  IF trackerType = "beads" THEN "BEADS_TEMPLATE"
  ELSE IF trackerType = "beads-bv" THEN "BEADS_BV_TEMPLATE"
  ELSE IF trackerType = "json" THEN "JSON_TEMPLATE"
  ELSE "DEFAULT_TEMPLATE"

\* config.promptTemplate: undefined or the path of a custom template
CustomPaths == {"undefined", "custom.hbs"}

\* what is at the custom path: no file, a file that cannot be read, or a
\* file with this content: empty, a template that renders, a template that
\* does not compile, a template that renders to white space
Files == {"missing", "unreadable", "", "CUSTOM_TEMPLATE", "{{#if}", "  "}

\* loadTemplate(customPath, trackerType, cwd)
LoadTemplate(customPath, trackerType, file) ==
  IF customPath # "undefined"
  THEN IF file = "unreadable"
       THEN [success |-> FALSE, content |-> "undefined", source |-> customPath,
             error |-> "Failed to read template"]
       ELSE IF file # "missing"
       THEN [success |-> TRUE, content |-> file, source |-> customPath,
             error |-> "undefined"]
       ELSE [success |-> FALSE, content |-> "undefined", source |-> customPath,
             error |-> "Template file not found"]
  ELSE [success |-> TRUE, content |-> GetBuiltinTemplate(trackerType),
        source |-> "builtin", error |-> "undefined"]

\* !loadResult.content, !result.prompt
Falsy(str) == str \in {"undefined", ""}

\* template(flatContext).trim()
Rendered(content) == IF content = "  " THEN "" ELSE "prompt from " \o content

\* renderPrompt(task, config), given what loadTemplate returned
RenderPrompt(loadResult) ==
  IF ~loadResult.success \/ Falsy(loadResult.content)
  THEN [success |-> FALSE, prompt |-> "undefined",
        error |-> IF loadResult.error # "undefined" THEN loadResult.error
                  ELSE "Failed to load template"]
  ELSE IF loadResult.content = "{{#if}"
  THEN [success |-> FALSE, prompt |-> "undefined", error |-> "Template rendering failed"]
  ELSE [success |-> TRUE, prompt |-> Rendered(loadResult.content), error |-> "undefined"]

\* buildPrompt(task, config), given what renderPrompt returned
BuildPrompt(result) ==
  IF result.success /\ ~Falsy(result.prompt) THEN result.prompt
  ELSE "fallback prompt"

\* buildPrompt calls renderPrompt, which calls loadTemplate: it returns
LoadTemplateReturns(customPath, trackerType, file) ==
  /\ prompt.stage = "none"
  /\ Becomes([World EXCEPT !.prompt =
       [stage |-> "loaded", customPath |-> customPath, trackerType |-> trackerType,
        file |-> file, loadResult |-> LoadTemplate(customPath, trackerType, file)]])

\* renderPrompt returns
RenderPromptReturns ==
  /\ prompt.stage = "loaded"
  /\ Becomes([World EXCEPT !.prompt =
       [stage |-> "rendered", customPath |-> prompt.customPath,
        trackerType |-> prompt.trackerType, file |-> prompt.file,
        loadResult |-> prompt.loadResult,
        result |-> RenderPrompt(prompt.loadResult)]])

\* buildPrompt returns
BuildPromptReturns ==
  /\ prompt.stage = "rendered"
  /\ Becomes([World EXCEPT !.prompt =
       [stage |-> "built", customPath |-> prompt.customPath,
        trackerType |-> prompt.trackerType, file |-> prompt.file,
        loadResult |-> prompt.loadResult, result |-> prompt.result,
        built |-> BuildPrompt(prompt.result)]])

NextPrompt ==
  \/ \E customPath \in CustomPaths, trackerType \in BuiltinTemplateTypes, file \in Files :
       LoadTemplateReturns(customPath, trackerType, file)
  \/ RenderPromptReturns
  \/ BuildPromptReturns

SpecPrompt == InitListeners /\ [][NextPrompt]_vars

-----------------------------------------------------------------------------
(* Vocabulary of the properties *)

InFlight == {id \in DOMAIN executions : ~executions[id].settled}

NoLoopSuspended == \A l \in Loops : pc[l] \in {"none", "rejected"}

EventsOfType(type) == {i \in 1..Len(events) : events[i].type = type}

\* the history holds the result of attempt number iteration
Recorded(iteration) == \E k \in 1..Len(iterations) : iterations[k].iteration = iteration

-----------------------------------------------------------------------------
(* C1: at most one agent execution is in flight, whatever start(), stop(),  *)
(* pause() and resume() calls interleave with the loop.                     *)
C1_OneExecutionInFlight == Cardinality(InFlight) <= 1

\* a second execution is in flight while a stop or pause request is pending
C1_Witness ==
  /\ InFlight # {}
  /\ Len(executions) >= 2
  /\ status \in {"stopping", "pausing"}

(* C2: every change of the status is a transition of the state table.       *)
StateTable ==
  { <<"idle", "running">>, <<"running", "pausing">>, <<"running", "stopping">>,
    <<"running", "idle">>, <<"pausing", "paused">>, <<"pausing", "running">>,
    <<"paused", "running">>, <<"paused", "stopping">>, <<"stopping", "idle">> }

C2_OnlyTableTransitions ==
  [][status' # status => <<status, status'>> \in StateTable]_vars

(* C3: after stop() the status returns to idle and start() is accepted      *)
(* again; so once no start() invocation is left to run and no stop() call   *)
(* is pending, the status is idle.                                          *)
C3_StopReturnsToIdle ==
  (NoLoopSuspended /\ stopPending = 0) => status = "idle"

(* C4: a stop() call made while an execution is in flight calls that        *)
(* handle's interrupt() exactly once, and the result of the interrupted     *)
(* attempt is in the history by the time the loop has exited.               *)
C4_StopInterruptsOnce ==
  (shouldStop' /\ stopPending' = stopPending + 1) =>
    \A id \in InFlight :
      executions'[id].interrupts = executions[id].interrupts + 1

C4_ResultRecorded ==
  \A id \in DOMAIN executions :
    executions[id].interrupts > 0 =>
      \/ Recorded(executions[id].iteration)
      \/ \E l \in Loops :
           /\ pc[l] \in {"awaitAgent", "completeTask", "saveIterationLog"}
           /\ loc[l].iteration = executions[id].iteration

C4_StopDuringExecution == [][C4_StopInterruptsOnce]_vars /\ []C4_ResultRecorded

\* the loop has exited after a stop() that interrupted an execution once
C4_Witness ==
  /\ NoLoopSuspended
  /\ status = "idle"
  /\ \E id \in DOMAIN executions :
       /\ executions[id].interrupts = 1
       /\ Recorded(executions[id].iteration)

(* C5: the iteration counter grows by exactly one per attempt, retries      *)
(* included: the k-th attempt of the engine carries iteration number k.     *)
StartedEvents == SelectSeq(events, LAMBDA e : e.type = "iteration:started")

C5_CounterCountsAttempts ==
  /\ Len(StartedEvents) = currentIteration
  /\ \A k \in 1..Len(StartedEvents) : StartedEvents[k].iteration = k

\* three attempts have started, one of them a retry
C5_Witness ==
  /\ currentIteration >= 3
  /\ EventsOfType("iteration:retrying") # {}

(* C6: under strategy 'retry' with maxRetries = N and no stop request, a    *)
(* single task that fails on every attempt gets exactly N+1 attempts, N     *)
(* 'iteration:retrying' events numbered 1..N and then one                   *)
(* 'iteration:skipped' event, ends in the skipped set, and the run ends     *)
(* with reason 'no_tasks' and tasksCompleted = 0.                           *)
LoopStoppedReasons ==
  SelectSeq(events, LAMBDA e : e.type = "engine:stopped" /\ e.info # "interrupted")

\* a run under 'retry' has ended, no stop() was called, every attempt failed
C6_FailingRunEnded ==
  /\ config.strategy = "retry"
  /\ Len(tracker.tasks) = 1
  /\ StopCalls(World) = 0
  /\ EventsOfType("engine:started") # {}
  /\ NoLoopSuspended
  /\ iterations # <<>>
  /\ \A k \in 1..Len(iterations) : iterations[k].status = "failed"

C6_Outcome ==
  LET retrying == SelectSeq(events, LAMBDA e : e.type = "iteration:retrying")
      task == tracker.tasks[1]
  IN /\ currentIteration = config.maxRetries + 1
     /\ Len(iterations) = config.maxRetries + 1
     /\ Len(retrying) = config.maxRetries
     /\ \A k \in 1..Len(retrying) : retrying[k].attempt = k /\ retrying[k].task = task
     /\ Cardinality(EventsOfType("iteration:skipped")) = 1
     /\ \A i \in EventsOfType("iteration:skipped") :
          \A j \in EventsOfType("iteration:retrying") : j < i
     /\ task \in skippedTasks
     /\ LoopStoppedReasons # <<>>
     /\ \A k \in 1..Len(LoopStoppedReasons) : LoopStoppedReasons[k].info = "no_tasks"
     /\ tasksCompleted = 0

C7_SkipOnFirstFailure ==
  config.strategy = "skip" =>
    /\ EventsOfType("iteration:retrying") = {}
    /\ \A k \in 1..Len(iterations) :
         iterations[k].status = "failed" =>
           /\ iterations[k].task \in skippedTasks
           /\ \A i \in EventsOfType("iteration:started") :
                events[i].task = iterations[k].task =>
                  events[i].iteration <= iterations[k].iteration

\* a task failed and was skipped, and the other task was attempted after it
C7_Witness ==
  /\ config.strategy = "skip"
  /\ \E k \in 1..Len(iterations) :
       /\ iterations[k].status = "failed"
       /\ \E i \in EventsOfType("iteration:started") :
            events[i].iteration > iterations[k].iteration

(* C8: under strategy 'abort' a failed attempt makes the loop emit          *)
(* 'engine:stopped' with reason 'error' and exit: no further attempt starts *)
(* in that run and the skipped set stays as it was.                         *)
C8_AbortOnFirstFailure ==
  config.strategy = "abort" =>
    /\ skippedTasks = {}
    /\ \A i \in EventsOfType("iteration:failed") :
         /\ events[i].info = "abort"
         /\ i < Len(events)
         /\ events[i + 1].type = "engine:stopped"
         /\ events[i + 1].info = "error"
         /\ \A j \in EventsOfType("iteration:started") :
              j > i => \E m \in EventsOfType("engine:started") : i < m /\ m < j
         /\ (~NoLoopSuspended =>
               \E m \in EventsOfType("engine:started") : i < m)

\* a run was aborted by a failure and the engine was started again
C8_Witness ==
  /\ config.strategy = "abort"
  /\ \E i \in EventsOfType("iteration:failed") :
       \E j \in EventsOfType("iteration:started") : j > i

(* C9: taskCompleted is true exactly when stdout holds the completion       *)
(* marker or the agent's status is 'completed', and completeTask is called  *)
(* for the attempt's task exactly when taskCompleted is true.               *)
\* an opening tag, COMPLETE and a closing tag with only white space between
MarkerIn(s) ==
  \E i, j, k \in 1..Len(s) :
    /\ i < j /\ j < k
    /\ IsOpenTag(s[i]) /\ IsWord(s[j]) /\ IsCloseTag(s[k])
    /\ \A m \in (i + 1)..(k - 1) : m # j => IsSpace(s[m])

C10_PausedAfterCompleted ==
  status = "paused" =>
    /\ InFlight = {}
    /\ pauseAt > 0 =>
         \E i \in EventsOfType("iteration:completed") : events[i].iteration = pauseAt

(* C11: resume() called while the status is pausing cancels the pending     *)
(* pause: the status is running again at once, and no 'engine:paused' and   *)
(* no 'engine:resumed' event is emitted for that pause() call: every        *)
(* 'engine:paused' event belongs to a pause() call that was not cancelled,  *)
(* and every 'engine:resumed' event to an 'engine:paused' event.            *)
Fates(fate) == {i \in 1..Len(pauseRequests) : pauseRequests[i] = fate}

C11_CancelRestoresRunning ==
  Cardinality(Fates("cancelled")') > Cardinality(Fates("cancelled")) =>
    status' = "running" /\ events' = events

C11_PausedOnlyIfNotCancelled ==
  /\ Cardinality(EventsOfType("engine:paused")) = Cardinality(Fates("served"))
  /\ Cardinality(EventsOfType("engine:resumed")) <= Cardinality(EventsOfType("engine:paused"))
  /\ status \in {"pausing", "paused"} =>
       /\ pauseRequests # <<>>
       /\ pauseRequests[Len(pauseRequests)] = IF status = "pausing" THEN "pending" ELSE "served"

C11_ResumeCancelsPause ==
  [][C11_CancelRestoresRunning]_vars /\ []C11_PausedOnlyIfNotCancelled

\* a pause() made during attempt 1 was cancelled and the loop went on to
\* attempt 2 without pausing
C11_Witness ==
  /\ Fates("cancelled") # {}
  /\ pauseAt = 1
  /\ currentIteration >= 2
  /\ EventsOfType("engine:paused") = {}

(* C12: with maxIterations = 0, no pause() and no stop(), and an agent      *)
(* whose every result carries the completion marker, a run over an acyclic  *)
(* backlog gives every task exactly one attempt, runs no task before the    *)
(* tasks it depends on, and ends with reason 'completed' and tasksCompleted *)
(* equal to the number of tasks.                                            *)
AttemptsOn(task) == {k \in 1..Len(iterations) : iterations[k].task = task}

\* a run has ended in which every attempt returned the marker
C12_MarkerRunEnded ==
  /\ config.maxIterations = 0
  /\ StopCalls(World) = 0
  /\ pauseRequests = <<>>
  /\ Cardinality(EventsOfType("engine:started")) = 1
  /\ NoLoopSuspended
  /\ Len(iterations) = currentIteration
  /\ \A k \in 1..Len(iterations) : iterations[k].promiseComplete

C12_Outcome ==
  /\ \A t \in TaskIds(tracker) : Cardinality(AttemptsOn(t)) = 1
  /\ \A k \in 1..Len(iterations) :
       \A d \in tracker.deps[iterations[k].task] :
         \E j \in 1..(k - 1) : iterations[j].task = d /\ iterations[j].taskCompleted
  /\ Len(LoopStoppedReasons) = 1
  /\ LoopStoppedReasons[1].info = "completed"
  /\ tasksCompleted = Len(tracker.tasks)

C12_MarkerRunCompletesAll == C12_MarkerRunEnded => C12_Outcome

(* C13: with maxIterations = M > 0, at least M ready tasks and an agent     *)
(* that always succeeds, a run that no stop() cuts short performs exactly M *)
(* attempts and ends with reason 'max_iterations', whether ready tasks      *)
(* remain or the tracker reports the backlog complete.                      *)
ReadyAtStart == {t \in TaskIds(tracker) : tracker.deps[t] = {}}

\* a run under a cap has ended in which every attempt succeeded
C13_SuccessfulRunEnded ==
  /\ config.maxIterations > 0
  /\ Cardinality(ReadyAtStart) >= config.maxIterations
  /\ StopCalls(World) = 0
  /\ EventsOfType("engine:started") # {}
  /\ NoLoopSuspended
  /\ Len(iterations) = currentIteration
  /\ \A k \in 1..Len(iterations) : iterations[k].status = "completed"

C13_StopsAtMaxIterations ==
  C13_SuccessfulRunEnded =>
    /\ currentIteration = config.maxIterations
    /\ LoopStoppedReasons # <<>>
    /\ \A k \in 1..Len(LoopStoppedReasons) : LoopStoppedReasons[k].info = "max_iterations"
    /\ EventsOfType("all:complete") = {}

\* two attempts under a cap of two closed the whole backlog, and the run
\* ended with 'max_iterations'
C13_Witness ==
  /\ C13_SuccessfulRunEnded
  /\ config.maxIterations = 2
  /\ IsComplete(tracker)

\* one attempt under a cap of one, with a task left open
C13_WitnessTasksRemain ==
  /\ C13_SuccessfulRunEnded
  /\ config.maxIterations = 1
  /\ ~IsComplete(tracker)

(* C14: start() throws when the status is not idle and when no agent and    *)
(* tracker are bound; a start() that throws leaves the status, counters,    *)
(* history, stop flag, retry and skip bookkeeping and the event stream as   *)
(* they were.                                                               *)
C14_StartThrowsUnchanged ==
  (status # "idle" \/ ~agentBound \/ ~trackerBound) =>
    /\ StartError(World) # "none"
    /\ \A l \in Loops : StartCall(World, l) = World

\* start() can be called while an attempt is in flight
C14_Witness ==
  /\ status = "running"
  /\ InFlight # {}
  /\ CallsMade(World) < MaxCalls
  /\ StartError(World) = "Cannot start engine"

\* start() can be called when initialize() threw before binding the tracker
C14_WitnessNotInitialized ==
  /\ agentBound /\ ~trackerBound
  /\ StartError(World) = "Engine not initialized"

(* C15: pause() in a status other than running and resume() in a status     *)
(* other than pausing or paused change nothing, and the only status changes *)
(* the two calls make are running -> pausing, pausing -> running and        *)
(* paused -> running.                                                       *)
C15_NoOpsOutsideSourceStates ==
  /\ status # "running" => PauseCall(World) = World
  /\ status \notin {"pausing", "paused"} => ResumeCall(World) = World
  /\ PauseCall(World).events = events
  /\ ResumeCall(World).events = events
  /\ \A w \in {PauseCall(World), ResumeCall(World)} :
       w.status # status => <<status, w.status>> \in StateTable

\* resume() is called while a stop request waits for the attempt in flight
C15_Witness ==
  /\ status = "stopping"
  /\ InFlight # {}
  /\ ResumeCall(World) = World

\* pause() is called on an engine that is idle again after a run
C15_WitnessPauseWhenIdle ==
  /\ status = "idle"
  /\ currentIteration >= 1
  /\ CallsMade(World) < MaxCalls
  /\ PauseCall(World) = World

(* C16: the events of one attempt come in the order 'iteration:started',    *)
(* 'task:selected', 'agent:output' (any number), then the attempt's         *)
(* 'iteration:retrying' / 'iteration:skipped' / 'task:completed', and last  *)
(* 'iteration:completed'.                                                   *)
AttemptEventRank(type) ==
  CASE type = "iteration:started" -> 1
    [] type = "task:selected" -> 2
    [] type = "agent:output" -> 3
    [] type \in {"iteration:retrying", "iteration:skipped", "task:completed"} -> 4
    [] type = "iteration:completed" -> 5
    [] OTHER -> 0

\* the positions of the events of attempt n that the order speaks of
AttemptEvents(n) ==
  {i \in 1..Len(events) :
     events[i].iteration = n /\ AttemptEventRank(events[i].type) > 0}

C16_EventOrder ==
  \A n \in 1..currentIteration :
    \A i, j \in AttemptEvents(n) :
      i < j => AttemptEventRank(events[i].type) <= AttemptEventRank(events[j].type)

\* the part of the order the code keeps: everything up to 'iteration:completed'
C16_OrderWithinRunIteration ==
  \A n \in 1..currentIteration :
    \A i, j \in AttemptEvents(n) :
      (i < j /\ events[j].type \notin {"iteration:retrying", "iteration:skipped"}) =>
        AttemptEventRank(events[i].type) <= AttemptEventRank(events[j].type)

(* C17: an exception raised inside an attempt - while the prompt is built,  *)
(* while the agent is invoked, or by the agent's promise rejecting - ends   *)
(* as a result with status 'failed' that carries the error; no start()      *)
(* call ever rejects with it.                                               *)
C17_ExceptionsBecomeResults ==
  /\ \A l \in Loops : pc[l] # "rejected"
  /\ \A n \in 1..currentIteration :
       (\A l \in Loops : loc[l].iteration # n) => Recorded(n)

(* C18: emit calls every registered listener once per event, in             *)
(* registration order, also the listeners registered after one that throws; *)
(* a listener's exception never makes a start() call reject.                *)
C18_Delivery ==
  LET n == Len(events') - Len(events)
      m == Len(listeners)
  IN /\ Len(delivered') = Len(delivered) + n * m
     /\ SubSeq(delivered', 1, Len(delivered)) = delivered
     /\ \A k \in 1..n, j \in 1..m :
          delivered'[Len(delivered) + (k - 1) * m + j]
            = [fn |-> listeners[j].fn, seq |-> Len(events) + k]

NewEvents == {i \in 1..Len(events') : i > Len(events)}

C19_SkippedStep ==
  /\ skippedTasks \subseteq skippedTasks'
  /\ \A i \in NewEvents :
       events'[i].type = "iteration:started" => events'[i].task \notin skippedTasks'

C19_SkippedSetPermanent == [][C19_SkippedStep]_vars

\* a task skipped in one run was not selected in the next run of the engine
C19_Witness ==
  /\ skippedTasks # {}
  /\ NoLoopSuspended
  /\ Len(LoopStoppedReasons) = 2
  /\ LoopStoppedReasons[2].info = "no_tasks"

(* C20: under strategy 'retry', no retry attempt is started once stop() has *)
(* been requested: a failed attempt whose handling or retry delay a stop    *)
(* request has overlapped returns its result and the attempt path is not    *)
(* entered again.                                                           *)
\* invocation l goes from an attempt, or from the retry delay, into a new attempt
RetryStarts(l) ==
  /\ pc[l] \in {"updateTaskStatus", "awaitAgent", "completeTask", "saveIterationLog",
                "retryDelay"}
  /\ pc'[l] = "updateTaskStatus"
  /\ currentIteration' = currentIteration + 1

C20_NoRetryAfterStopStep == shouldStop => \A l \in Loops : ~RetryStarts(l)

C20_NoRetryAfterStop == [][C20_NoRetryAfterStopStep]_vars

\* stop() was requested during the retry delay and the retry did not start
C20_Witness ==
  /\ config.strategy = "retry"
  /\ config.retryDelayMs > 0
  /\ shouldStop
  /\ NoLoopSuspended
  /\ currentIteration = 1
  /\ Cardinality(EventsOfType("iteration:retrying")) = 1
  /\ InFlight = {}
  /\ \A id \in DOMAIN executions : executions[id].interrupts = 0

(* C21: when 'iteration:completed' is emitted for an attempt, the           *)
(* saveIterationLog call of that attempt has returned.                      *)
C21_LogSavedBeforeCompleted ==
  \A i \in EventsOfType("iteration:completed") : events[i].iteration \in savedLogs

\* one attempt's log was saved and its event emitted; the log of another
\* attempt could not be saved and that attempt has no event
C21_Witness ==
  /\ \E i \in EventsOfType("iteration:completed") : events[i].iteration \in savedLogs
  /\ \E k \in 1..Len(iterations) :
       /\ iterations[k].error
       /\ iterations[k].iteration \notin savedLogs
       /\ \E id \in DOMAIN executions :
            executions[id].iteration = iterations[k].iteration /\ executions[id].settled
            /\ currentExecution # id

(* C22: with maxIterations = 0, strategy 'retry' or 'skip', no pause() and  *)
(* no stop(), and an agent whose every execution ends with a result of its  *)
(* contract, every run ends: it emits 'engine:stopped' and the status is    *)
(* idle again.                                                              *)
RunEnded ==
  /\ NoLoopSuspended
  /\ status = "idle"
  /\ Len(LoopStoppedReasons) = Cardinality(EventsOfType("engine:started"))

NoInterruptedResult ==
  \A k \in 1..Len(iterations) : iterations[k].status # "interrupted"

C22_EveryRunEndsUninterrupted ==
  ([]NoInterruptedResult) => (~NoLoopSuspended ~> RunEnded)

(* C23: under strategy 'retry' the retry counter stored for a task is the   *)
(* number of consecutive failed attempts of that task since its last        *)
(* non-failed attempt, it is never greater than maxRetries, and no task is  *)
(* in the skipped set and in the retry-counter map at once.                 *)
\* the failed attempts of a task after its last attempt that did not fail
ConsecutiveFailures(task) ==
  LET notFailed == {k \in AttemptsOn(task) : iterations[k].status # "failed"}
  IN Cardinality({k \in AttemptsOn(task) : \A m \in notFailed : m < k})

C23_CounterBounded ==
  config.strategy = "retry" =>
    /\ \A t \in DOMAIN retryCountMap :
         retryCountMap[t] >= 1 /\ retryCountMap[t] <= config.maxRetries
    /\ DOMAIN retryCountMap \cap skippedTasks = {}

C23_RetryCounter ==
  config.strategy = "retry" =>
    /\ C23_CounterBounded
    /\ \A t \in TaskIds(tracker) \ skippedTasks :
         RetryCount(retryCountMap, t) = ConsecutiveFailures(t)

(* C24: the current-execution handle is non-null exactly while the engine   *)
(* awaits an agent execution's result; it is null whenever no attempt is in *)
(* flight, also after an attempt whose agent promise rejected, so stop()    *)
(* never calls interrupt() on the handle of a finished attempt.             *)
AwaitingAgent == {l \in Loops : pc[l] = "awaitAgent"}

C24_HandleWhileAwaiting ==
  /\ currentExecution # 0 <=> AwaitingAgent # {}
  /\ currentExecution # 0 => currentExecution \in InFlight

\* a step leaves the interrupt() count of every finished execution alone
C24_NoInterruptAfterSettledStep ==
  \A id \in DOMAIN executions :
    executions[id].settled => executions'[id].interrupts = executions[id].interrupts

C24_NoInterruptAfterSettled == [][C24_NoInterruptAfterSettledStep]_vars

(* C25: the start timestamp is set exactly once, on the first successful    *)
(* start(); a later start() on the same engine does not change it.          *)
C25_StartedAtSetOnceStep == startedAt # 0 => startedAt' = startedAt

C25_StartedAtSetOnce == [][C25_StartedAtSetOnceStep]_vars

(* C26: an agent run that ends with status 'completed' without printing the *)
(* completion marker gives an iteration result with status 'completed' and  *)
(* taskCompleted = false, and leaves its task open for the next cycle.      *)
\* the results of agent runs that succeeded without signalling completion
RanWithoutFinishing ==
  {k \in 1..Len(iterations) :
     /\ ~iterations[k].error
     /\ iterations[k].status = "completed"
     /\ ~iterations[k].promiseComplete}

C26_CompletedButTaskOpen ==
  \A k \in RanWithoutFinishing :
    /\ ~iterations[k].taskCompleted
    /\ tracker.status[iterations[k].task] # "closed"

\* what the code does instead: status 'completed' always closes the task
C26_CompletedClosesTask ==
  \A k \in 1..Len(iterations) :
    iterations[k].status = "completed" => iterations[k].taskCompleted

(* C27: getNextAvailableTask returns the first task, in the order the       *)
(* tracker returned them, that is not skipped and that isTaskReady accepts, *)
(* and none exactly when there is no such task.                             *)
\* the positions in the tracker's answer of the tasks that can be selected
Selectable ==
  LET tasks == GetTasks(tracker, {"open", "in_progress"})
  IN {i \in 1..Len(tasks) :
        tasks[i] \notin skippedTasks /\ IsTaskReady(tracker, tasks[i])}

FirstSelectable ==
  LET tasks == GetTasks(tracker, {"open", "in_progress"})
  IN IF Selectable = {} THEN "none"
     ELSE tasks[CHOOSE i \in Selectable : \A j \in Selectable : i <= j]

C27_FirstReadyInOrder ==
  /\ GetNextAvailableTask(World) = FirstSelectable
  /\ \A l \in Loops : pc[l] = "updateTaskStatus" => loc[l].task = FirstSelectable
  /\ (\E i \in EventsOfType("engine:stopped") : events[i].info = "no_tasks")
       => FirstSelectable = "none"

\* the third task is selected: the first is skipped, the second not ready
C27_Witness ==
  /\ Len(tracker.tasks) = 3
  /\ \E l \in Loops : pc[l] = "updateTaskStatus" /\ loc[l].task = tracker.tasks[3]
  /\ tracker.tasks[1] \in skippedTasks /\ tracker.status[tracker.tasks[1]] = "open"
  /\ tracker.tasks[2] \notin skippedTasks /\ tracker.status[tracker.tasks[2]] = "open"

\* nothing is selected although a task is open and not skipped
C27_WitnessNone ==
  /\ \E i \in EventsOfType("engine:stopped") : events[i].info = "no_tasks"
  /\ \E t \in TaskIds(tracker) \ skippedTasks : tracker.status[t] = "open"

(* C28: results are appended to the history in the order they are produced  *)
(* and never modified or removed: whenever no attempt is in flight the      *)
(* history is as long as the iteration counter, and its k-th entry is the   *)
(* result of attempt k.                                                     *)
\* the start() invocations that are inside runIteration
InRunIteration ==
  {l \in Loops :
     pc[l] \in {"updateTaskStatus", "awaitAgent", "completeTask", "saveIterationLog"}}

C28_HistoryNumbered ==
  \A k \in 1..Len(iterations) : iterations[k].iteration = k

C28_HistoryComplete ==
  /\ C28_HistoryNumbered
  /\ InRunIteration = {} => Len(iterations) = currentIteration

\* a step leaves the history alone or appends one result to it
C28_AppendOnlyStep ==
  \/ iterations' = iterations
  \/ /\ Len(iterations') = Len(iterations) + 1
     /\ SubSeq(iterations', 1, Len(iterations)) = iterations

C28_AppendOnly == [][C28_AppendOnlyStep]_vars

(* C29: whenever the status is paused the loop is suspended between         *)
(* iterations: no agent execution is in flight, no task is current, and no  *)
(* iteration attempt starts until resume() or stop() is called.             *)
C29_SuspendedWhilePaused ==
  status = "paused" =>
    /\ InFlight = {}
    /\ currentTask = "none"
    /\ \E l \in Loops : pc[l] = "pausePoll"
    /\ \A l \in Loops : pc[l] \in {"pausePoll", "none", "rejected"}

\* a step taken while paused starts no attempt and no execution
C29_NoAttemptWhilePausedStep ==
  status = "paused" =>
    /\ currentIteration' = currentIteration
    /\ Len(executions') = Len(executions)
    /\ status' # "paused" => status' \in {"running", "stopping"}

C29_PausedBetweenIterations ==
  []C29_SuspendedWhilePaused /\ [][C29_NoAttemptWhilePausedStep]_vars

\* paused after a first attempt, with a task the loop could select
C29_Witness ==
  /\ status = "paused"
  /\ Len(iterations) >= 1
  /\ GetNextAvailableTask(World) # "none"

(* C30: once stop() has set the stop flag no new agent execution is started *)
(* in that run, wherever in the loop the stop() call interleaves.           *)
\* start() invocation l calls agent.execute in this step
ExecuteCalled(l) ==
  /\ pc[l] = "updateTaskStatus"
  /\ pc'[l] \notin {"updateTaskStatus", "rejected"}

C30_NoExecuteAfterStopStep == shouldStop => \A l \in Loops : ~ExecuteCalled(l)

C30_NoExecuteAfterStop == [][C30_NoExecuteAfterStopStep]_vars

(* C31: every run, from 'engine:started' until the status is idle again,    *)
(* emits exactly one 'engine:stopped' event, and no 'engine:stopped' event  *)
(* is emitted outside a run.                                                *)
Started == Cardinality(EventsOfType("engine:started"))

Stopped == Cardinality(EventsOfType("engine:stopped"))

\* no start() invocation is suspended and no stop() call has yet to emit
Quiescent == NoLoopSuspended /\ stopPending = 0

C31_StoppedNeverAhead == Stopped <= Started

C31_OneStoppedPerRun ==
  /\ C31_StoppedNeverAhead
  /\ Quiescent => Stopped = Started

\* no run ends having emitted two 'engine:stopped' events
C31_NeverTwoStoppedInOneRun ==
  ~(Quiescent /\ Started = 1 /\ Stopped = 2)

(* C32: whenever no attempt is in flight the tasksCompleted counter equals  *)
(* the number of history entries whose taskCompleted flag is true, which is *)
(* the number of times the engine told the tracker to close a task.         *)
CompletedEntries == {k \in 1..Len(iterations) : iterations[k].taskCompleted}

C32_CounterMatchesHistory ==
  InRunIteration = {} =>
    /\ tasksCompleted = Cardinality(CompletedEntries)
    /\ tasksCompleted = Cardinality(tracker.completeCalls)

\* the same for histories without a failed result that carries the marker
C32_CounterMatchesUnlessFailed ==
  (InRunIteration = {} /\ \A k \in CompletedEntries : iterations[k].status # "failed")
    => tasksCompleted = Cardinality(CompletedEntries)

(* C33: with maxIterations = M > 0 the iteration counter never exceeds M,   *)
(* under every error strategy: retries count against the cap.               *)
C33_CounterWithinCap ==
  config.maxIterations > 0 => currentIteration <= config.maxIterations

\* the same under the strategies that never retry
C33_CounterWithinCapNoRetry ==
  (config.maxIterations > 0 /\ config.strategy # "retry")
    => currentIteration <= config.maxIterations

(* C34: the engine never starts an iteration attempt for a task it has      *)
(* already closed with completeTask, and never sets such a task back to     *)
(* in_progress, under every strategy, agent status and marker.              *)
\* the tasks the engine closed in an attempt before attempt number iteration
ClosedBefore(iteration) ==
  {c.task : c \in {d \in tracker.completeCalls : d.iteration < iteration}}

C34_NoAttemptOnClosedTask ==
  \A l \in InRunIteration : loc[l].task \notin ClosedBefore(loc[l].iteration)

C34_ClosedStaysClosed ==
  \A c \in tracker.completeCalls : tracker.status[c.task] = "closed"

C34_ClosedTaskLeftAlone ==
  C34_NoAttemptOnClosedTask /\ C34_ClosedStaysClosed

\* the same for histories without a failed result that carries the marker
C34_LeftAloneUnlessFailed ==
  (\A k \in CompletedEntries : iterations[k].status # "failed")
    => C34_ClosedTaskLeftAlone

(* C35: after pause() has been accepted (status pausing) and absent a       *)
(* resume(), only the attempt that was in flight finishes: no further       *)
(* 'iteration:started' event, for a retry or for a new task, occurs before  *)
(* 'engine:paused' is emitted.                                              *)
\* this step emits 'iteration:started'
AttemptStarts == currentIteration' # currentIteration

C35_NoAttemptWhilePausingStep == status = "pausing" => ~AttemptStarts

C35_NoAttemptWhilePausing == [][C35_NoAttemptWhilePausingStep]_vars

\* the same when pause() was accepted while an attempt was in flight
C35_NoRetryWhilePausingStep == (status = "pausing" /\ pauseAt > 0) => ~AttemptStarts

C35_NoRetryWhilePausing == [][C35_NoRetryWhilePausingStep]_vars

\* the same when that attempt ran under a strategy that never retries
C35_NoNewTaskWhilePausingStep ==
  (status = "pausing" /\ pauseAt > 0 /\ config.strategy # "retry") => ~AttemptStarts

C35_NoNewTaskWhilePausing == [][C35_NoNewTaskWhilePausingStep]_vars

(* C36: with the iFlow adapter as the agent, an attempt whose execution     *)
(* stop() interrupted is recorded with status 'interrupted', not 'failed':  *)
(* no failure handling (skip, retry count, stop with reason 'error') is     *)
(* applied to the stopped task.                                             *)
\* the recorded attempts whose execution received an interrupt()
InterruptedAttempts ==
  {k \in 1..Len(iterations) :
     \E id \in DOMAIN executions :
       executions[id].iteration = iterations[k].iteration /\ executions[id].interrupts > 0}

C36_StoppedAttemptNotFailed ==
  \A k \in InterruptedAttempts :
    /\ iterations[k].status # "failed"
    /\ \A i \in EventsOfType("iteration:failed") :
         events[i].iteration # iterations[k].iteration

\* what the adapter makes of every attempt: never 'interrupted'
C36_IFlowNeverInterrupted ==
  \A k \in 1..Len(iterations) : iterations[k].status # "interrupted"

(* C37: when a listener calls an unsubscribe function from inside its       *)
(* callback while emit delivers an event, every listener still registered   *)
(* after that call receives the event exactly once; and an unsubscribe      *)
(* function removes only the registration it was returned for, however      *)
(* often it is called.                                                      *)
Registrations(ls, fn) == Cardinality({i \in 1..Len(ls) : ls[i].fn = fn})

\* emit, delivering one event to the listeners registered now
EmitNow == DeliverFrom(listeners, 1, 0, <<>>)

\* the functions registered once before the event and still registered after
KeptListeners ==
  {ls.fn : ls \in {listeners[i] : i \in 1..Len(listeners)}} \cap
  {fn \in {"a", "b", "c", "d"} :
     Registrations(listeners, fn) = 1 /\ Registrations(EmitNow.listeners, fn) = 1}

C37_KeptListenersReceive ==
  \A fn \in KeptListeners : Registrations(EmitNow.delivered, fn) = 1

\* a second call of the same unsubscribe function removes nothing more
C37_UnsubscribeRemovesOne ==
  \A i \in 1..Len(listeners) :
    RemoveFirst(RemoveFirst(listeners, listeners[i].fn), listeners[i].fn)
      = RemoveFirst(listeners, listeners[i].fn)

C37_UnsubscribeDuringEmit == C37_KeptListenersReceive /\ C37_UnsubscribeRemovesOne

\* in a run: no listener is passed over for 'engine:started' and then called
\* for the 'iteration:started' that follows it
C37_NoEventMissedInRun ==
  ~\E k \in 1..(Len(delivered) - 1) :
     /\ delivered[k].fn = "c"
     /\ events[delivered[k].seq].type = "engine:started"
     /\ delivered[k + 1] = [fn |-> "a", seq |-> delivered[k].seq + 1]
     /\ \A j \in 1..Len(delivered) : delivered[j] # [fn |-> "a", seq |-> delivered[k].seq]
     /\ events[delivered[k].seq + 1].type = "iteration:started"

(* C38: for the iFlow adapter a handle's interrupt() signals only the child *)
(* process of the execute() call that returned the handle and is a no-op    *)
(* once that process has exited, also when other execute() calls were made  *)
(* on the same plugin in the meantime; isRunning() of a handle reflects     *)
(* only its own process.                                                    *)
C38_InterruptOwnProcess ==
  \A p \in DOMAIN childProcesses : childProcesses[p].signalledBy \subseteq {p}

C38_IsRunningOwnProcess ==
  \A handle \in DOMAIN childProcesses :
    IFlowIsRunning(World, handle)
      <=> (~childProcesses[handle].exited /\ ~childProcesses[handle].killed)

C38_HandleOwnsProcess == C38_InterruptOwnProcess /\ C38_IsRunningOwnProcess

(* C39: the Copilot adapter's runVersion promise settles exactly once, with *)
(* the outcome of whichever of 'error', 'close' and the 5-second timeout    *)
(* occurs first: close with code 0 and a parsable x.y.z gives that version, *)
(* everything else success = false; a later event changes nothing and the   *)
(* timer is cleared when the promise settles.                               *)
IsDigits(str) == str # <<>> /\ \A i \in 1..Len(str) : str[i] = "1"

\* str reads x.y.z
IsVersion(str) ==
  \E i, j \in 1..Len(str) :
    /\ i < j /\ str[i] = "." /\ str[j] = "."
    /\ IsDigits(SubSeq(str, 1, i - 1))
    /\ IsDigits(SubSeq(str, i + 1, j - 1))
    /\ IsDigits(SubSeq(str, j + 1, Len(str)))

Substrings(str) ==
  {SubSeq(str, i, j) : i \in 1..Len(str), j \in 1..Len(str)}

\* the result that belongs to the callback that ran first
ExpectedOutcome(v) ==
  IF v.occurred[1] = "error" THEN v.result[1] = Failure("Failed to execute")
  ELSE IF v.occurred[1] = "timeout" THEN v.result[1] = Failure("Timeout")
  ELSE IF v.code # "0" THEN ~v.result[1].success
  ELSE IF \E str \in Substrings(v.stdout) : IsVersion(str)
  THEN /\ v.result[1].success
       /\ IsVersion(v.result[1].version)
       /\ v.result[1].version \in Substrings(v.stdout)
  ELSE v.result[1] = Failure("Unable to parse")

C39_SettlesOnceWithFirst ==
  /\ runVersion.resolves <= 1
  /\ runVersion.resolves = 1 <=> runVersion.occurred # <<>>
  /\ runVersion.occurred # <<>> =>
       /\ Len(runVersion.result) = 1
       /\ ExpectedOutcome(runVersion)
       /\ runVersion.timer # "armed"

\* the timeout came first; the process then closed with code 0 and a version
C39_Witness ==
  /\ runVersion.occurred = <<"timeout", "close">>
  /\ runVersion.result = <<Failure("Timeout")>>
  /\ \E str \in Substrings(runVersion.stdout) : IsVersion(str)

\* close came first, with code 0 and a version in the output
C39_WitnessVersion ==
  /\ runVersion.occurred = <<"close">>
  /\ runVersion.timer = "cleared"
  /\ runVersion.result = <<Success(<<"1", ".", "1", ".", "1">>)>>

(* C40: loadTemplate returns the custom template's content when a custom    *)
(* path is given and the file can be read, and in every other case (no      *)
(* custom path, file missing, read error) the built-in template of the      *)
(* tracker type; so buildPrompt uses its hardcoded prompt only when the     *)
(* rendering itself fails.                                                  *)
C40_LoadFallsBack ==
  prompt.stage # "none" =>
    /\ prompt.loadResult.success
    /\ prompt.loadResult.content =
         IF prompt.customPath # "undefined" /\ prompt.file \notin {"missing", "unreadable"}
         THEN prompt.file
         ELSE GetBuiltinTemplate(prompt.trackerType)

C40_FallbackOnlyOnRenderFailure ==
  (prompt.stage = "built" /\ prompt.built = "fallback prompt")
    => prompt.result.error = "Template rendering failed"

C40_TemplateFallback == C40_LoadFallsBack /\ C40_FallbackOnlyOnRenderFailure

\* the same when no custom path is configured
C40_BuiltinWithoutCustomPath ==
  (prompt.stage = "built" /\ prompt.customPath = "undefined")
    => /\ prompt.loadResult.content = GetBuiltinTemplate(prompt.trackerType)
       /\ prompt.built = Rendered(GetBuiltinTemplate(prompt.trackerType))

====
